---- MODULE Spec2Model ----
(***************************************************************************)
(* Model of discord_argparse.ArgumentConverter: the registry of declared   *)
(* arguments, the coroutine convert() (one step per loop iteration, since  *)
(* each iteration awaits a converter), the final validation/defaulting     *)
(* loop and the defaults() accessor.                                       *)
(*                                                                         *)
(* Strings are sequences of one-character strings, so that str.lower(),    *)
(* str.split("=") and "=".join() are computed and not assumed.  A Python   *)
(* value is a record [type, v].                                            *)
(***************************************************************************)
EXTENDS Naturals, Sequences, FiniteSets

\* Bound of the model: the number of words in an argument string.
MaxTokens == 2

(***************************************************************************)
(* Python values                                                           *)
(***************************************************************************)
None == [type |-> "NoneType", v |-> 0]
True == [type |-> "bool", v |-> 1]
False == [type |-> "bool", v |-> 0]
PyInt(n) == [type |-> "int", v |-> n]
\* what a Converter's convert(ctx, value) coroutine hands back
PyConverted(n) == [type |-> "converted", v |-> n]
\* the object built by calling a class on the raw value
PyInstance(n) == [type |-> "instance", v |-> n]

(***************************************************************************)
(* Strings                                                                 *)
(***************************************************************************)
UpperCase == <<"A","B","C","D","E","F","G","H","I","J","K","L","M",
               "N","O","P","Q","R","S","T","U","V","W","X","Y","Z">>
LowerCase == <<"a","b","c","d","e","f","g","h","i","j","k","l","m",
               "n","o","p","q","r","s","t","u","v","w","x","y","z">>
Digits == <<"0","1","2","3","4","5","6","7","8","9">>

lower_char(c) ==
    IF \E k \in 1..Len(UpperCase) : UpperCase[k] = c
    THEN LowerCase[CHOOSE k \in 1..Len(UpperCase) : UpperCase[k] = c]
    ELSE c

\* str.lower()
lower(s) == [k \in 1..Len(s) |-> lower_char(s[k])]

\* the test of line 166 left out: every word is taken for name=value
has_separator_always(raw_arg) == TRUE

\* "=" in raw_arg
has_separator(raw_arg) == \E k \in 1..Len(raw_arg) : raw_arg[k] = "="

RECURSIVE split(_)
\* raw_arg.split("=")
split(s) ==
    IF \A k \in 1..Len(s) : s[k] # "=" THEN << s >>
    ELSE LET p == CHOOSE k \in 1..Len(s) :
                     s[k] = "=" /\ \A j \in 1..(k-1) : s[j] # "="
         IN  << SubSeq(s, 1, p-1) >> \o split(SubSeq(s, p+1, Len(s)))

RECURSIVE join(_)
\* "=".join(values)
join(parts) ==
    IF parts = << >> THEN << >>
    ELSE IF Len(parts) = 1 THEN parts[1]
    ELSE parts[1] \o << "=" >> \o join(Tail(parts))

is_digit(c) == \E k \in 1..Len(Digits) : Digits[k] = c
digit_value(c) == (CHOOSE k \in 1..Len(Digits) : Digits[k] = c) - 1

\* s.isdigit(): non-empty and only decimal digits
is_decimal(s) == Len(s) > 0 /\ \A k \in 1..Len(s) : is_digit(s[k])

RECURSIVE decimal(_)
decimal(s) ==
    IF s = << >> THEN 0
    ELSE 10 * decimal(SubSeq(s, 1, Len(s)-1)) + digit_value(s[Len(s)])

(***************************************************************************)
(* Converters.  A converter is described by what _convert_value inspects:  *)
(* its identity (name), __module__ (dotted path as a sequence),            *)
(* inspect.isclass, issubclass/isinstance of commands.Converter, whether   *)
(* getattr(converter, "convert") is a bound (class)method, and whether     *)
(* calling it with one string argument is accepted.                        *)
(***************************************************************************)
Conv(name, module, isclass, is_converter, has_convert, accepts_value) ==
    [name |-> name, module |-> module, isclass |-> isclass,
     is_converter |-> is_converter, has_convert |-> has_convert,
     accepts_value |-> accepts_value]

BoolType == Conv("bool", <<"builtins">>, TRUE, FALSE, FALSE, TRUE)
IntType == Conv("int", <<"builtins">>, TRUE, FALSE, FALSE, TRUE)
\* a plain function  def parse(value): return int(value)
Function == Conv("parse", <<"__main__">>, FALSE, FALSE, FALSE, TRUE)
\* class TurnsConverter(commands.Converter), passed as the class
ConverterClass == Conv("TurnsConverter", <<"__main__">>, TRUE, TRUE, TRUE, FALSE)
\* TurnsConverter(), passed as an instance
ConverterInstance == Conv("TurnsConverter", <<"__main__">>, FALSE, TRUE, TRUE, FALSE)
\* a class with a classmethod convert(cls, ctx, value), not a Converter;
\* its constructor takes the raw value ...
ClassWithConvert == Conv("Parser", <<"__main__">>, TRUE, FALSE, TRUE, TRUE)
\* ... or takes no argument at all
ClassWithConvertNoArg == Conv("Parser0", <<"__main__">>, TRUE, FALSE, TRUE, FALSE)
\* discord.VoiceChannel: a framework type with an adapter in converters
VoiceChannel == Conv("VoiceChannel", <<"discord","channel">>, TRUE, FALSE, FALSE, FALSE)
VoiceChannelConverter ==
    Conv("VoiceChannelConverter", <<"discord","ext","commands","converter">>,
         TRUE, TRUE, TRUE, FALSE)
\* discord.Embed: a framework type without an adapter
Embed == Conv("Embed", <<"discord","embeds">>, TRUE, FALSE, FALSE, TRUE)

Converters == {BoolType, IntType, Function, ConverterClass, ConverterInstance,
               ClassWithConvert, ClassWithConvertNoArg, VoiceChannel, Embed}

\* module.startswith("discord.")
startswith_discord(module) == Len(module) >= 2 /\ module[1] = "discord"
\* module.endswith("converter")
endswith_converter(module) == module[Len(module)] = "converter"

\* the names X for which the module converters has an attribute XConverter
AdapterNames == {"VoiceChannel"}
\* getattr(converters, converter.__name__ + "Converter"), where it exists
adapter(converter) ==
    IF converter.name = "VoiceChannel" THEN VoiceChannelConverter ELSE converter

(***************************************************************************)
(* What the converters themselves do (they are supplied by the caller):    *)
(* every one of them parses a decimal number and raises on anything else.  *)
(***************************************************************************)
\* one invocation of a conversion strategy, as _convert_value sees it
Invocation(strategy, raised, ret) ==
    [strategy |-> strategy, raised |-> raised, ret |-> ret]

\* await <Converter instance>.convert(ctx, value)
instance_convert(value) ==
    IF is_decimal(value)
    THEN Invocation("instance.convert", FALSE, PyConverted(decimal(value)))
    ELSE Invocation("instance.convert", TRUE, None)

\* await method(ctx, value), method the bound classmethod convert
method_convert(value) ==
    IF is_decimal(value)
    THEN Invocation("class.convert", FALSE, PyConverted(decimal(value)))
    ELSE Invocation("class.convert", TRUE, None)

\* converter(value)
call_converter(converter, value) ==
    IF converter.accepts_value /\ is_decimal(value)
    THEN Invocation("callable", FALSE,
                    IF converter.isclass /\ converter.name # "int"
                    THEN PyInstance(decimal(value))
                    ELSE PyInt(decimal(value)))
    ELSE Invocation("callable", TRUE, None)

(***************************************************************************)
(* ArgumentConverter._convert_to_bool                                      *)
(***************************************************************************)
Truthy == { <<"j","a">>, <<"y","e","s">>, <<"y">>, <<"t","r","u","e">>,
            <<"t">>, <<"1">>, <<"e","n","a","b","l","e">>, <<"o","n">> }
Falsy == { <<"n","e","i","n">>, <<"n","o">>, <<"f","a","l","s","e">>,
           <<"f">>, <<"0">>, <<"d","i","s","a","b","l","e">>,
           <<"o","f","f">> }

\* the outcome of a call: exc = "" when it returned ret
Outcome(exc, ret, calls) == [exc |-> exc, ret |-> ret, calls |-> calls]

_convert_to_bool(value) ==
    LET lowered == lower(value)
    IN  IF lowered \in Truthy THEN Outcome("", True, << >>)
        ELSE IF lowered \in Falsy THEN Outcome("", False, << >>)
        ELSE Outcome("ConversionError", None, << >>)

(***************************************************************************)
(* ArgumentConverter._convert_value                                        *)
(***************************************************************************)
\* lines 142-160: the strategies, once the converter is resolved
invoke(converter, value) ==
    LET fallback(calls) ==
            LET c == call_converter(converter, value)
            IN  IF c.raised
                THEN Outcome("ConversionError", None, Append(calls, c))
                ELSE Outcome("", c.ret, Append(calls, c))
        wrapped(c) ==
            IF c.raised THEN Outcome("ConversionError", None, << c >>)
                        ELSE Outcome("", c.ret, << c >>)
    IN  IF converter.isclass
        THEN IF converter.is_converter
             THEN wrapped(instance_convert(value))
             ELSE IF converter.has_convert
                  THEN LET m == method_convert(value)
                       IN  IF m.raised
                           THEN Outcome("ConversionError", None, << m >>)
                           \* ret is assigned and not returned: line 150
                           ELSE fallback(<< m >>)
                  ELSE fallback(<< >>)
        ELSE IF converter.is_converter
             THEN wrapped(instance_convert(value))
             ELSE fallback(<< >>)

_convert_value(converter, value) ==
    IF converter = BoolType
    \* line 131 names the global _convert_to_bool, which does not exist:
    \* the method is only reachable as self._convert_to_bool
    THEN Outcome("NameError", None, << >>)
    ELSE IF startswith_discord(converter.module)
            /\ ~ endswith_converter(converter.module)
         THEN IF converter.name \in AdapterNames
              THEN invoke(adapter(converter), value)
              ELSE Outcome("AttributeError", None, << >>)
         ELSE invoke(converter, value)

(***************************************************************************)
(* Arguments and the registry self.arguments (a dict, in insertion order)  *)
(***************************************************************************)
\* RequiredArgument(converter, default=default) / OptionalArgument(...)
Argument(name, required, converter, default) ==
    [name |-> name, required |-> required, converter |-> converter,
     default |-> default]

\* what dict.get returns for a missing key
NoArgument == Argument(<< >>, FALSE, IntType, None)

\* self.arguments.get(key)
get(args, key) ==
    IF \E k \in 1..Len(args) : args[k].name = key
    THEN args[CHOOSE k \in 1..Len(args) : args[k].name = key]
    ELSE NoArgument

\* dicts keyed by strings
EmptyDict == [k \in {} |-> None]
\* the dict rebuilt around the new item instead of updated
setitem_rebuilt(d, key, v) == [k \in {key} |-> v]

\* d[key] = v
setitem(d, key, v) == [k \in (DOMAIN d) \cup {key} |-> IF k = key THEN v ELSE d[k]]

(***************************************************************************)
(* ArgumentConverter.convert                                               *)
(***************************************************************************)
NoError == [kind |-> "", name |-> << >>, value |-> << >>]
Error(kind, name, value) == [kind |-> kind, name |-> name, value |-> value]

\* the effect of one iteration of the loop over the tokens
Iteration(error, converted, calls) ==
    [error |-> error, converted |-> converted, calls |-> calls]

\* the miss passed over, as the word without "=" is
unknown_argument_skipped(name, converted) ==
    Iteration(NoError, converted, << >>)

\* lines 172-173: raise UnknownArgumentError(name)
unknown_argument(name, converted) ==
    Iteration(Error("UnknownArgumentError", name, << >>), converted, << >>)

\* lines 166-185: one iteration of the loop, on the token raw_arg
process_token(args, converted, raw_arg) ==
    IF ~ has_separator(raw_arg)
    THEN Iteration(NoError, converted, << >>)
    ELSE LET parts == split(raw_arg)
             name == Head(parts)
             value == join(Tail(parts))
             argument == get(args, lower(name))
         IN  IF argument = NoArgument
             THEN unknown_argument(name, converted)
             ELSE LET r == _convert_value(argument.converter, value)
                  IN  IF r.exc = ""
                      THEN Iteration(NoError, setitem(converted, name, r.ret),
                                     r.calls)
                      ELSE IF r.exc = "ConversionError"
                      THEN Iteration(Error("InvalidArgumentValueError", name, value),
                                     converted, r.calls)
                      ELSE Iteration(Error("ConversionError", << >>, << >>),
                                     converted, r.calls)

\* what convert hands to its caller: a dict (error.kind = "") or an error
Result(error, mapping) == [error |-> error, mapping |-> mapping]

\* the test made on the other class of argument
is_missing_optional(argument, name, converted) ==
    ~ argument.required /\ name \notin DOMAIN converted

\* line 188: isinstance(argument, RequiredArgument) and name not in converted
is_missing(argument, name, converted) ==
    argument.required /\ name \notin DOMAIN converted

RECURSIVE validate(_, _, _)
\* lines 187-195: the loop over self.arguments.items(), from position k on
validate(args, converted, k) ==
    IF k > Len(args) THEN Result(NoError, converted)
    ELSE LET name == args[k].name
             argument == args[k]
         IN  IF is_missing(argument, name, converted)
             THEN Result(Error("MissingRequiredArgument", name, << >>), EmptyDict)
             ELSE IF argument.default # None /\ name \notin DOMAIN converted
             THEN validate(args, setitem(converted, name, argument.default), k+1)
             ELSE validate(args, converted, k+1)

RECURSIVE convert_from(_, _, _, _)
\* the whole of convert, resumed at token k with the dict built so far
convert_from(args, toks, k, converted) ==
    IF k > Len(toks) THEN validate(args, converted, 1)
    ELSE LET it == process_token(args, converted, toks[k])
         IN  IF it.error # NoError THEN Result(it.error, EmptyDict)
             ELSE convert_from(args, toks, k+1, it.converted)

\* await ArgumentConverter(**args).convert(ctx, argstr), toks the tokens of argstr
convert(args, toks) == convert_from(args, toks, 1, EmptyDict)

(***************************************************************************)
(* ArgumentConverter.defaults                                              *)
(***************************************************************************)
\* the test of line 201 left out
has_default_always(argument) == TRUE

\* line 201: argument.default is not None
has_default(argument) == argument.default # None

RECURSIVE defaults_from(_, _, _)
defaults_from(args, default_arguments, k) ==
    IF k > Len(args) THEN default_arguments
    ELSE IF has_default(args[k])
    THEN defaults_from(args, setitem(default_arguments, args[k].name, args[k].default), k+1)
    ELSE defaults_from(args, default_arguments, k+1)

defaults(args) == defaults_from(args, EmptyDict, 1)

(***************************************************************************)
(* Inputs                                                                  *)
(***************************************************************************)
Defaults == { None, PyInt(7) }

\* the words shlex.split can hand to the loop
Tokens ==
    { <<"t","=","1">>, <<"t","=","0">>, <<"t","=","x">>, <<"T","=","1">>,
      <<"i","=","1">>, <<"f","o","o">>, <<"t">>, <<"t","=","1","=","0">> }

SeqsUpTo(S, n) == UNION { [1..m -> S] : m \in 0..n }

ArgStrings == SeqsUpTo(Tokens, MaxTokens)

\* one declared argument, registered as t or as T, with any converter
DispatchRegistries ==
    { << Argument(n, r, c, d) >> :
        n \in { <<"t">>, <<"T">> }, r \in BOOLEAN, c \in Converters,
        d \in Defaults }

\* the arguments t and i, converted by int, in any number and order
IntArguments ==
    { Argument(n, r, IntType, d) :
        n \in { <<"t">>, <<"i">> }, r \in BOOLEAN, d \in Defaults }

IntRegistries ==
    { args \in SeqsUpTo(IntArguments, 2) :
        \A j, k \in 1..Len(args) : j # k => args[j].name # args[k].name }

Registries == DispatchRegistries \cup IntRegistries

(***************************************************************************)
(* State                                                                   *)
(***************************************************************************)
VARIABLES
    arguments,      \* self.arguments
    pc,             \* where the convert coroutine stands
    tokens,         \* shlex.split(argstr or "") of the call in flight
    i,              \* position in tokens of the loop of convert
    converted,      \* the local dict converted
    calls,          \* the converter invocations of this call, in order
    raised,         \* the exception convert ended with, if any
    returned,       \* the dict convert returned, if any
    defaults_ret    \* what the last call of defaults() returned, if any

vars == << arguments, pc, tokens, i, converted, calls, raised, returned,
           defaults_ret >>

NoReturn == [present |-> FALSE, mapping |-> EmptyDict]
Return(mapping) == [present |-> TRUE, mapping |-> mapping]

\* an invocation as logged: the token it served and what it did
Logged(k, c) == [token |-> k, strategy |-> c.strategy, raised |-> c.raised,
                 ret |-> c.ret]
log(k, cs) == [j \in 1..Len(cs) |-> Logged(k, cs[j])]

Init ==
    /\ arguments \in Registries
    /\ pc = "idle"
    /\ tokens = << >>
    /\ i = 1
    /\ converted = EmptyDict
    /\ calls = << >>
    /\ raised = NoError
    /\ returned = NoReturn
    /\ defaults_ret = NoReturn

\* convert(ctx, argstr) is called: lines 162-165
convert_call ==
    /\ pc = "idle"
    /\ \E toks \in ArgStrings : tokens' = toks
    /\ pc' = "loop"
    /\ i' = 1
    /\ converted' = EmptyDict
    /\ calls' = << >>
    /\ raised' = NoError
    /\ returned' = NoReturn
    /\ UNCHANGED << arguments, defaults_ret >>

\* one iteration of the for loop: lines 165-185
convert_token ==
    /\ pc = "loop"
    /\ i <= Len(tokens)
    /\ LET it == process_token(arguments, converted, tokens[i])
       IN  /\ calls' = calls \o log(i, it.calls)
           /\ converted' = it.converted
           /\ IF it.error = NoError
              THEN /\ i' = i + 1
                   /\ UNCHANGED << pc, raised >>
              ELSE /\ pc' = "raised"
                   /\ raised' = it.error
                   /\ UNCHANGED i
    /\ UNCHANGED << arguments, tokens, returned, defaults_ret >>

\* the tokens are exhausted: lines 187-195
convert_finish ==
    /\ pc = "loop"
    /\ i > Len(tokens)
    /\ LET r == validate(arguments, converted, 1)
       IN  IF r.error = NoError
           THEN /\ pc' = "returned"
                /\ returned' = Return(r.mapping)
                /\ converted' = r.mapping
                /\ UNCHANGED raised
           ELSE /\ pc' = "raised"
                /\ raised' = r.error
                /\ UNCHANGED << returned, converted >>
    /\ UNCHANGED << arguments, tokens, i, calls, defaults_ret >>

\* the caller has taken the dict or the exception; the frame of convert,
\* with its locals, is gone and the converter can be called again
convert_exit ==
    /\ pc \in {"returned", "raised"}
    /\ pc' = "idle"
    /\ tokens' = << >>
    /\ i' = 1
    /\ converted' = EmptyDict
    /\ calls' = << >>
    /\ raised' = NoError
    /\ returned' = NoReturn
    /\ UNCHANGED << arguments, defaults_ret >>

\* defaults() is called: lines 197-203
defaults_call ==
    /\ defaults_ret' = Return(defaults(arguments))
    /\ UNCHANGED << arguments, pc, tokens, i, converted, calls, raised, returned >>

Next ==
    \/ convert_call
    \/ convert_token
    \/ convert_finish
    \/ convert_exit
    \/ defaults_call

Spec == Init /\ [][Next]_vars

(***************************************************************************)
(* Vocabulary of the properties                                            *)
(***************************************************************************)
Done == pc \in {"returned", "raised"}
\* the tokens were all consumed without error
Consumed == Done /\ i > Len(tokens)
\* what the call in flight ended with
outcome == Result(raised, returned.mapping)

ContainsEquals(tok) == "=" \in { tok[k] : k \in 1..Len(tok) }
FirstEquals(tok) ==
    CHOOSE k \in 1..Len(tok) : tok[k] = "=" /\ \A j \in 1..(k-1) : tok[j] # "="
\* the text before the first "=" and the text after it
NameOf(tok) == SubSeq(tok, 1, FirstEquals(tok) - 1)
ValueOf(tok) == SubSeq(tok, FirstEquals(tok) + 1, Len(tok))

Pairs == { k \in 1..Len(tokens) : ContainsEquals(tokens[k]) }
Declared(n) == \E k \in 1..Len(arguments) : arguments[k].name = n
Position(n) == CHOOSE k \in 1..Len(arguments) : arguments[k].name = n
\* the declaration a token resolves to
ArgumentOf(tok) == arguments[Position(lower(NameOf(tok)))]
Resolves(tok) == ContainsEquals(tok) /\ Declared(lower(NameOf(tok)))
CallsOf(k) == SelectSeq(calls, LAMBDA c : c.token = k)

Permutations(n) == { f \in [1..n -> 1..n] : \A a, b \in 1..n : a # b => f[a] # f[b] }
Permuted(f) == [k \in 1..Len(tokens) |-> tokens[f[k]]]

\* the tokens with their names in lower case
LowerNamed(tok) ==
    IF ContainsEquals(tok)
    THEN lower(NameOf(tok)) \o << "=" >> \o ValueOf(tok)
    ELSE tok
LowerNames == [k \in 1..Len(tokens) |-> LowerNamed(tokens[k])]

(***************************************************************************)
(* C1                                                                      *)
(***************************************************************************)
\* C1: name matching is case-insensitive: the call ends as it would have
\* with every name written in lower case: same success or same kind of
\* error, the same arguments in the result (up to the case of their names)
\* and the same value for each.
C1_CaseInsensitiveNames ==
    Done =>
        LET o == convert(arguments, LowerNames)
            m == returned.mapping
        IN  /\ raised.kind = o.error.kind
            /\ returned.present =>
                /\ Cardinality(DOMAIN m) = Cardinality(DOMAIN o.mapping)
                /\ { lower(n) : n \in DOMAIN m }
                       = { lower(n) : n \in DOMAIN o.mapping }
                /\ \A n \in DOMAIN m, n2 \in DOMAIN o.mapping :
                       lower(n) = lower(n2) => m[n] = o.mapping[n2]

(***************************************************************************)
(* C2                                                                      *)
(***************************************************************************)
\* C2: a token for an argument declared with bool is converted by the
\* literal sets, whatever the case of the value: a truthy literal stores
\* True, a falsy one stores False, and any other value ends the call with
\* InvalidArgumentValueError(name, value).
C2_BooleanLiterals ==
    \A k \in Pairs :
        (Resolves(tokens[k]) /\ ArgumentOf(tokens[k]).converter = BoolType) =>
            LET name == NameOf(tokens[k])
                value == ValueOf(tokens[k])
            IN  /\ (pc = "loop" /\ k = i - 1) =>
                     /\ lower(value) \in Truthy \cup Falsy
                     /\ name \in DOMAIN converted
                     /\ converted[name] =
                            IF lower(value) \in Truthy THEN True ELSE False
                /\ (pc = "raised" /\ k = i) =>
                     /\ lower(value) \notin Truthy \cup Falsy
                     /\ raised = Error("InvalidArgumentValueError", name, value)

(***************************************************************************)
(* C3                                                                      *)
(***************************************************************************)
\* an argument is supplied when a token is written with its name
Supplied(n) == \E k \in Pairs : NameOf(tokens[k]) = n

C4_OrderIndependent ==
    Consumed =>
        \A f \in Permutations(Len(tokens)) :
            convert(arguments, Permuted(f)) = outcome

DistinctNames ==
    \A j, k \in Pairs : j # k => NameOf(tokens[j]) # NameOf(tokens[k])

\* C4, amended: when every token names a declared argument and converts,
\* and no two tokens are written with the same name, convert ends the same
\* way on every permutation of the tokens.
C4_OrderIndependentDistinct ==
    (Consumed /\ DistinctNames) =>
        \A f \in Permutations(Len(tokens)) :
            convert(arguments, Permuted(f)) = outcome

\* two tokens for two declared arguments were converted and returned
C4_Witness ==
    /\ pc = "returned"
    /\ DistinctNames
    /\ \E j, k \in Pairs :
          /\ j < k
          /\ lower(NameOf(tokens[j])) # lower(NameOf(tokens[k]))
          /\ NameOf(tokens[j]) \in DOMAIN returned.mapping
          /\ NameOf(tokens[k]) \in DOMAIN returned.mapping

(***************************************************************************)
(* C5                                                                      *)
(***************************************************************************)
\* C5: when the call ends at a token that names a declared argument, it
\* ends with InvalidArgumentValueError carrying the token's name and raw
\* value, whichever step of the conversion failed.
C5_FailuresAreInvalidValue ==
    (pc = "raised" /\ i <= Len(tokens) /\ Resolves(tokens[i])) =>
        raised = Error("InvalidArgumentValueError",
                       NameOf(tokens[i]), ValueOf(tokens[i]))

(***************************************************************************)
(* C6                                                                      *)
(***************************************************************************)
\* C6: the call fails at the first token whose lower-cased name is not
\* declared, with UnknownArgumentError carrying the name as written and
\* without a result; the loop never moves past such a token; converters
\* are invoked in the order of the tokens, each for a token the loop has
\* reached, and none for a token after the one that failed.
C6_FailFastUnknown ==
    /\ \A k \in Pairs : k < i => Resolves(tokens[k])
    /\ (pc = "raised" /\ i <= Len(tokens) /\ ContainsEquals(tokens[i])
            /\ ~ Resolves(tokens[i])) =>
          raised = Error("UnknownArgumentError", NameOf(tokens[i]), << >>)
    /\ raised.kind = "UnknownArgumentError" =>
          /\ pc = "raised"
          /\ i <= Len(tokens)
          /\ ContainsEquals(tokens[i])
          /\ ~ Declared(lower(NameOf(tokens[i])))
          /\ raised.name = NameOf(tokens[i])
          /\ ~ returned.present
          /\ \A c \in 1..Len(calls) : calls[c].token < i
    /\ pc = "returned" => i = Len(tokens) + 1
    /\ \A c \in 1..Len(calls) :
          /\ calls[c].token \in Pairs
          /\ calls[c].token <= i
          /\ pc = "loop" => calls[c].token < i
          /\ \A d \in 1..Len(calls) : c < d => calls[c].token <= calls[d].token

\* a call failed on an unknown name before a token that names a declared
\* argument
C6_Witness ==
    /\ raised.kind = "UnknownArgumentError"
    /\ i < Len(tokens)
    /\ \E k \in Pairs : k > i /\ Resolves(tokens[k])

(***************************************************************************)
(* C7                                                                      *)
(***************************************************************************)
\* no token resolves to the argument n
Unsupplied(n) == \A k \in Pairs : lower(NameOf(tokens[k])) # n

\* C7: when a Required argument without default is not supplied, the call
\* returns nothing: it ends with an error, and unless a token failed first,
\* or a Required argument declared before it is missing too, the error is
\* MissingRequiredArgument naming that argument.
C7_MissingRequired ==
    Done =>
        \A k \in 1..Len(arguments) :
            LET a == arguments[k]
            IN  (a.required /\ a.default = None /\ Unsupplied(a.name)) =>
                    /\ pc = "raised"
                    /\ ~ returned.present
                    /\ Consumed =>
                          /\ raised.kind = "MissingRequiredArgument"
                          /\ \/ raised.name = a.name
                             \/ \E j \in 1..(k-1) :
                                   /\ arguments[j].required
                                   /\ arguments[j].name = raised.name
                                   /\ ~ Supplied(raised.name)

\* the second declared argument is Required, has no default and was not
\* supplied, while the first one was converted
C7_Witness ==
    /\ Consumed
    /\ Len(calls) > 0
    /\ Len(arguments) = 2
    /\ arguments[2].required
    /\ arguments[2].default = None
    /\ Unsupplied(arguments[2].name)
    /\ raised = Error("MissingRequiredArgument", arguments[2].name, << >>)

(***************************************************************************)
(* C8                                                                      *)
(***************************************************************************)
\* C8: a call ends exactly as it does on the same tokens without those that
\* contain no "=": same result or same error.
C8_WordsWithoutEqualsDropped ==
    Done => outcome = convert(arguments, SelectSeq(tokens, ContainsEquals))

\* a call returned a converted argument although a word without "=", not
\* the name of any argument, stood before it
C8_Witness ==
    /\ pc = "returned"
    /\ Len(calls) > 0
    /\ \E k \in 1..Len(tokens) :
          /\ ~ ContainsEquals(tokens[k])
          /\ ~ Declared(lower(tokens[k]))
          /\ \E j \in Pairs : k < j

(***************************************************************************)
(* C9                                                                      *)
(***************************************************************************)
\* what defaults() returned is the declared defaults other than None
DefaultsExact ==
    defaults_ret.present =>
        /\ DOMAIN defaults_ret.mapping =
              { arguments[k].name : k \in { j \in 1..Len(arguments) :
                                              arguments[j].default # None } }
        /\ \A k \in 1..Len(arguments) :
              arguments[k].default # None =>
                  defaults_ret.mapping[arguments[k].name] = arguments[k].default

\* C9: defaults() returns the defaults other than None of the declared
\* arguments, Required and Optional alike, and no others; no call of
\* defaults() or step of convert changes the registry, and defaults()
\* returns the same mapping every time.
C9_DefaultsPure ==
    /\ []DefaultsExact
    /\ [][/\ arguments' = arguments
          /\ defaults_ret.present => defaults_ret' = defaults_ret]_vars

\* defaults() was called while a call of convert had returned, on a
\* registry with a Required argument that has a default and an argument
\* without one
C9_Witness ==
    /\ defaults_ret.present
    /\ pc = "returned"
    /\ \E k \in 1..Len(arguments) :
          arguments[k].required /\ arguments[k].default # None
    /\ \E k \in 1..Len(arguments) : arguments[k].default = None

(***************************************************************************)
(* C10                                                                     *)
(***************************************************************************)
\* C10: for a token that names a declared argument exactly one strategy is
\* invoked, once; the value stored for the token is the value it returned;
\* nothing is invoked after an invocation that returned.
C10_OneStrategyOnce ==
    \A k \in Pairs :
        /\ k < i =>
              /\ Len(CallsOf(k)) = 1
              /\ ~ CallsOf(k)[1].raised
        /\ (k = i - 1 /\ pc = "loop") =>
              converted[NameOf(tokens[k])] = CallsOf(k)[1].ret
        /\ \A c \in 1..Len(CallsOf(k)) :
              c < Len(CallsOf(k)) => CallsOf(k)[c].raised

====
